---- MODULE Spec2Model ----
(***************************************************************************)
(* State-machine model of graia.ariadne.connection.connection:             *)
(* ConnectionStatus, the socket connections (WebsocketConnectionMixin and  *)
(* its client / server variants), the polling HttpClientConnection and the *)
(* push-only HttpServerConnection.                                         *)
(***************************************************************************)
EXTENDS Integers, Sequences, FiniteSets, TLC

\* ------------------------------------------------------------------ bounds
MaxIo == 2          \* channels the transport has open at the same time
MaxKeys == 2        \* session keys the remote hands out
MaxRunning == 1     \* invocations of one callback that run at the same time

\* ------------------------------------------------------------------ values
\* Python's None and the Ellipsis default of update(session_key=...).
None == "None"
Omit == "..."
\* Session keys the remote may hand out; the empty string is a str like any other.
Keys == {"", "K1", "K2"}
\* Optional[bool] arguments: <<>> is None, <<b>> is the boolean b.
OptBool == {<<>>, <<TRUE>>, <<FALSE>>}
\* CallMethod members the connections test for.
CallMethods == {"GET", "POST", "RESTGET", "RESTPOST", "MULTIPART"}
Commands == {"messageList", "uploadImage"}
\* secrets.token_urlsafe(12) draws a token at random: any token, a live one included.
Tokens == {"t1", "t2"}
\* call tasks of the application
Calls == {"c1", "c2"}
\* the callables in event_callbacks
Callbacks == {"cb1", "cb2"}
Payloads == {"P1", "P2"}
Ios == 1..MaxIo
Unset == 0          \* the attribute ws_io does not exist

\* data of an inbound frame: absent (None), or a dict with "session", with "type",
\* or with neither (the payload of a response)
NoData == [kind |-> "absent", val |-> None]
FrameData ==
    {NoData}
        \cup [kind : {"session"}, val : {"", "K1"}]
        \cup [kind : {"type"}, val : {"E"}]
        \cup [kind : {"payload"}, val : Payloads]
NoCode == -1        \* the frame has no "code" member
NoSync == "#"       \* raw.get("syncId", "#")
Frames ==
    [code : {NoCode}, syncId : {NoSync} \cup Tokens, data : FrameData]
        \cup [code : {0}, syncId : {NoSync} \cup Tokens,
              data : {NoData, [kind |-> "payload", val |-> "P1"]}]
        \cup [code : {3, 5}, syncId : {NoSync} \cup Tokens, data : {NoData}]

VARIABLES
    session_key,    \* ConnectionStatus.session_key : None or a key
    connected,      \* ConnectionStatus.connected
    alive,          \* ConnectionStatus.alive
    waiters,        \* tasks suspended in wait_for_update
    woken,          \* tasks notify() has resolved and that have not run yet
    variant,        \* which connection class was constructed
    fallback,       \* ConnectionMixin.fallback is set
    open,           \* channels the transport has open
    verifySent,     \* open channels the verify frame was sent on
    ws_io,          \* WebsocketConnectionMixin.ws_io
    futures,        \* WebsocketConnectionMixin.futures: token -> owner of the future
    callpc,         \* where each call task stands
    content,        \* the envelope each call built
    fut,            \* each call's future: state and result
    callret,        \* what each finished call returned or raised
    sent,           \* per call, the channel its envelope was transmitted on
    torn,           \* calls whose channel closed while they awaited their response
    running,        \* per callback, its invocations that have not completed
    gathering,      \* callbacks the suspended asyncio.gather still awaits
    raised,         \* the exception the handler that ran last ended with, if any
    mainpc,         \* where HttpClientConnection.mainline stands
    authkey,        \* per task, the session key its http_auth got from verify
    issued,         \* session keys the remote has handed out so far
    valid,          \* session keys the remote accepts
    httpreq,        \* per call, the HTTP request it issued
    batch,          \* events of the fetched list not yet dispatched
    response,       \* what handle_request returned last
    lastUpdate      \* arguments of the last direct call of update

statusVars == <<session_key, connected, alive, waiters, woken>>
wsVars == <<variant, fallback, open, verifySent, ws_io, futures, callpc, content, fut,
            callret, sent, torn, running, gathering, raised>>
chanVars == <<open, verifySent, ws_io, futures, content, fut, sent, torn>>
httpVars == <<mainpc, authkey, issued, valid, httpreq, batch, response>>
vars == <<session_key, connected, alive, waiters, woken, variant, fallback,
          open, verifySent, ws_io, futures, callpc, content, fut, callret, sent, torn,
          running, gathering, raised, mainpc, authkey, issued, valid, httpreq, batch,
          response, lastUpdate>>

\* ------------------------------------------------------------------ ConnectionStatus
\* truth value of a session key as Python's `and` / `not` see it
Truthy(k) == k # None /\ k # ""

available == connected /\ Truthy(session_key) /\ alive

StatusInit ==
    /\ session_key = None
    /\ connected = FALSE
    /\ alive = FALSE
    /\ waiters = {}
    /\ woken = {}

NewSessionKey(sk) == IF sk # Omit THEN sk ELSE session_key

\* variant: a cleared session key leaves connected as it was
NewConnected_KeptOnClear(sk, c) ==
    IF c # <<>> THEN c[1]
    ELSE IF sk # Omit /\ sk # None THEN TRUE
    ELSE connected

\* variant: supplying any session key, None included, sets connected
NewConnected_AnyKey(sk, c) ==
    IF c # <<>> THEN c[1]
    ELSE IF sk # Omit THEN TRUE
    ELSE connected

\* variant: a supplied session key decides connected even when connected is supplied
NewConnected_KeyWins(sk, c) ==
    IF sk # Omit THEN sk # None
    ELSE IF c # <<>> THEN c[1]
    ELSE connected

NewConnected(sk, c) ==
    IF c # <<>> THEN c[1]
    ELSE IF sk # Omit THEN sk # None
    ELSE connected

\* variant: an omitted alive resets the field
NewAlive_ResetOnOmit(a) == IF a # <<>> THEN a[1] ELSE FALSE

NewAlive(a) == IF a # <<>> THEN a[1] ELSE alive

\* variant: an update that changes no field does not notify
update_SilentWhenUnchanged(sk, c, a) ==
    /\ session_key' = NewSessionKey(sk)
    /\ connected' = NewConnected(sk, c)
    /\ alive' = NewAlive(a)
    /\ IF <<session_key', connected', alive'>> = <<session_key, connected, alive>>
        THEN UNCHANGED <<waiters, woken>>
        ELSE /\ woken' = woken \cup waiters
             /\ waiters' = {}

\* notify(past): every task suspended in wait_for_update is resolved
notify ==
    /\ woken' = woken \cup waiters
    /\ waiters' = {}

update(sk, c, a) ==
    /\ session_key' = NewSessionKey(sk)
    /\ connected' = NewConnected(sk, c)
    /\ alive' = NewAlive(a)
    /\ notify

\* ------------------------------------------------------------------ socket connection
\* the tasks that run http_auth: mainline and the calls
Tasks == Calls \cup {"main"}
NoRequest == [verb |-> "", command |-> "", carrier |-> ""]
NoCall == "-"
NoException == "none"
NoRet == [kind |-> "none", val |-> None]
NoFut == [state |-> "none", result |-> NoRet]
NoEnvelope == [syncId |-> NoSync, command |-> "", content |-> "", subCommand |-> "absent"]
Raised(exc) == [kind |-> "raise", val |-> exc]

\* responses of HttpServerConnection.handle_request
NoResponse == "-"
NoReply == "None"
Unauthorized == "401 Authorization failed"
Acknowledged == "{command: '', data: {}}"

NoUpdate == [session_key |-> Omit, connected |-> <<>>, alive |-> <<>>]

WsInit ==
    /\ fallback = FALSE
    /\ open = {}
    /\ verifySent = {}
    /\ ws_io = Unset
    /\ futures = [t \in Tokens |-> NoCall]
    /\ callpc = [c \in Calls |-> "idle"]
    /\ content = [c \in Calls |-> NoEnvelope]
    /\ fut = [c \in Calls |-> NoFut]
    /\ callret = [c \in Calls |-> NoRet]
    /\ sent = [c \in Calls |-> Unset]
    /\ torn = {}
    /\ running = [cb \in Callbacks |-> 0]
    /\ gathering = {}
    /\ raised = NoException
    /\ mainpc = "init"
    /\ authkey = [k \in Tasks |-> None]
    /\ issued = 0
    /\ valid = {}
    /\ httpreq = [c \in Calls |-> NoRequest]
    /\ batch = 0
    /\ response = NoResponse

\* no handler is suspended in asyncio.gather
Idle == gathering = {}

\* asyncio.gather(*(callback(event) for callback in self.event_callbacks)): every
\* callback is started with the event and the caller suspends until all are done
CanDispatch == \A cb \in Callbacks : running[cb] < MaxRunning
Dispatch ==
    /\ running' = [cb \in Callbacks |-> running[cb] + 1]
    /\ gathering' = Callbacks

\* validate_response raises for a member "code" that is neither absent nor 0
ValidateRaises(code) == code # NoCode /\ code # 0
ExceptionOf(code) == IF code = 3 THEN "InvalidSession" ELSE "ProtocolError"

\* the weak dictionary drops an entry when its future is no longer referenced
Forget(futs, c) == [t \in Tokens |-> IF futs[t] = c THEN NoCall ELSE futs[t]]

\* variant: any pending call is taken for the owner of a token
Owner_AnyPending(sync_id) ==
    IF \E c \in Calls : fut[c].state = "pending"
        THEN CHOOSE c \in Calls : fut[c].state = "pending"
        ELSE NoCall

\* self.futures.get(sync_id): the call whose live future is registered under sync_id
Owner(sync_id) == IF sync_id \in Tokens THEN futures[sync_id] ELSE NoCall

\* the ways the received-frame handler returns normally
Exits == {"ack", "resolved", "event", "dropped"}

\* variant: a frame with a session member is dispatched like an event
FrameOutcome_AckAsEvent(f) ==
    IF ValidateRaises(f.code) THEN ExceptionOf(f.code)
    ELSE IF f.data.kind = "absent" THEN "TypeError"
    ELSE IF Owner(f.syncId) # NoCall
        THEN IF fut[Owner(f.syncId)].state = "done"
                THEN "InvalidStateError" ELSE "resolved"
    ELSE IF f.data.kind \in {"type", "session"} THEN "event"
    ELSE "dropped"

\* what the received-frame handler does with a frame, as one of its exits
FrameOutcome(f) ==
    IF ValidateRaises(f.code) THEN ExceptionOf(f.code)
    ELSE IF f.data.kind = "absent" THEN "TypeError"
    ELSE IF f.data.kind = "session" THEN "ack"
    ELSE IF Owner(f.syncId) # NoCall
        THEN IF fut[Owner(f.syncId)].state = "done"
                THEN "InvalidStateError" ELSE "resolved"
    ELSE IF f.data.kind = "type" THEN "event"
    ELSE "dropped"

\* WebsocketReceivedEvent: a frame arrives on a channel the transport has open
Received(f) ==
    /\ open # {}
    /\ Idle
    /\ FrameOutcome(f) = "event" => CanDispatch
    /\ LET out == FrameOutcome(f) IN
        CASE out = "ack" ->
                /\ update(f.data.val, <<>>, <<>>)
                /\ UNCHANGED <<fut, running, gathering>>
          [] out = "resolved" ->
                /\ fut' = [fut EXCEPT ![Owner(f.syncId)] =
                                [state |-> "done", result |-> f.data]]
                /\ UNCHANGED <<statusVars, running, gathering>>
          [] out = "event" ->
                /\ update(Omit, <<>>, <<TRUE>>)
                /\ Dispatch
                /\ UNCHANGED fut
          [] OTHER ->
                UNCHANGED <<statusVars, fut, running, gathering>>
    /\ raised' = IF FrameOutcome(f) \in Exits THEN NoException ELSE FrameOutcome(f)
    /\ UNCHANGED <<variant, fallback, open, verifySent, ws_io, futures, callpc, content,
                   callret, sent, torn, lastUpdate>>
    /\ UNCHANGED httpVars

\* a running callback ends: one the suspended gather awaits (awaited) or one left
\* over from a gather that has already raised; normally (ok) or with an exception.
\* gather returns to the handler with the last awaited callback, and raises in it
\* with the first that fails.
CallbackError == "CallbackError"
GatherRaises(cb, ok, awaited) == awaited /\ ~ok
GatherReturns(cb, ok, awaited) == awaited /\ ok /\ gathering = {cb}
CallbackDone(cb, ok, awaited) ==
    /\ IF awaited THEN cb \in gathering
                  ELSE running[cb] > (IF cb \in gathering THEN 1 ELSE 0)
    /\ running' = [running EXCEPT ![cb] = @ - 1]
    /\ gathering' = IF GatherRaises(cb, ok, awaited) THEN {}
                    ELSE IF awaited THEN gathering \ {cb}
                    ELSE gathering
    /\ raised' = IF GatherRaises(cb, ok, awaited) THEN CallbackError ELSE raised
    /\ mainpc' = IF GatherRaises(cb, ok, awaited) /\ variant = "httpclient"
                    THEN "crashed" ELSE mainpc
    /\ response' = IF GatherReturns(cb, ok, awaited) /\ variant = "httpserver"
                    THEN Acknowledged ELSE response
    /\ UNCHANGED <<statusVars, variant, fallback, open, verifySent, ws_io, futures, callpc,
                   content, fut, callret, sent, torn, lastUpdate>>
    /\ UNCHANGED <<authkey, issued, valid, httpreq, batch>>

\* WebsocketCloseEvent
Closed(io) ==
    /\ io \in open
    /\ Idle
    /\ open' = open \ {io}
    /\ verifySent' = verifySent \ {io}
    /\ torn' = torn \cup {c \in Calls : /\ callpc[c] = "await"
                                          /\ fut[c].state = "pending"
                                          /\ sent[c] = io}
    /\ IF ws_io = Unset
        THEN /\ raised' = "AttributeError"
             /\ UNCHANGED <<statusVars, ws_io>>
        ELSE /\ ws_io' = Unset
             /\ update(None, <<>>, <<FALSE>>)
             /\ raised' = NoException
    /\ UNCHANGED <<variant, fallback, futures, callpc, content, fut, callret,
                   sent, running, gathering, lastUpdate>>
    /\ UNCHANGED httpVars

\* the channel the transport opens next
NewIo == CHOOSE io \in Ios : io \notin open /\ \A j \in Ios \ open : io <= j

\* WebsocketConnectEvent of WebsocketClientConnection
ClientConnect ==
    /\ variant = "client"
    /\ open = {}
    /\ Idle
    /\ open' = {NewIo}
    /\ ws_io' = NewIo
    /\ raised' = NoException
    /\ UNCHANGED <<statusVars, variant, fallback, verifySent, futures, callpc, content, fut,
                   callret, sent, torn, running, gathering, lastUpdate>>
    /\ UNCHANGED httpVars

\* variant: only the headers of the request are compared
ServerConnect_IgnoresParams(headersOk, paramsOk) ==
    /\ variant = "server"
    /\ Idle
    /\ open # Ios
    /\ IF headersOk
        THEN /\ open' = open \cup {NewIo}
             /\ verifySent' = verifySent \cup {NewIo}
             /\ ws_io' = NewIo
        ELSE UNCHANGED <<open, verifySent, ws_io>>
    /\ raised' = NoException
    /\ UNCHANGED <<statusVars, variant, fallback, futures, callpc, content, fut,
                   callret, sent, torn, running, gathering, lastUpdate>>
    /\ UNCHANGED httpVars

\* WebsocketConnectEvent of WebsocketServerConnection: the request's headers and
\* query parameters match the configured ones, or not
ServerConnect(headersOk, paramsOk) ==
    /\ variant = "server"
    /\ Idle
    /\ open # Ios
    /\ IF headersOk /\ paramsOk
        THEN /\ open' = open \cup {NewIo}
             /\ verifySent' = verifySent \cup {NewIo}
             /\ ws_io' = NewIo
        ELSE UNCHANGED <<open, verifySent, ws_io>>
    /\ raised' = NoException
    /\ UNCHANGED <<statusVars, variant, fallback, futures, callpc, content, fut,
                   callret, sent, torn, running, gathering, lastUpdate>>
    /\ UNCHANGED httpVars

\* the params argument of a socket call: omitted (None), {} or a dict with members
CallParams == {None, "empty", "plain"}
\* params or {}
ParamsOrEmpty(params) == IF params = None \/ params = "empty" THEN "empty" ELSE params

\* variant: the sub-command follows the verb of the kind, tagged or not
SubCommand_ByVerb(method) ==
    IF method \in {"GET", "RESTGET"} THEN "get"
    ELSE IF method \in {"POST", "RESTPOST"} THEN "update"
    ELSE "absent"

SubCommand(method) ==
    IF method = "RESTGET" THEN "get"
    ELSE IF method = "RESTPOST" THEN "update"
    ELSE "absent"

\* variant: the envelope is transmitted without waiting for available
Proceed_NoWait(c, env, futs, f) ==
    /\ callpc' = [callpc EXCEPT ![c] = "await"]
    /\ sent' = [sent EXCEPT ![c] = ws_io]
    /\ content' = [content EXCEPT ![c] = env]
    /\ futures' = futs
    /\ fut' = [fut EXCEPT ![c] = f]
    /\ UNCHANGED <<callret, waiters>>

\* the tail of call from wait_for_available on: send when available, else suspend
Proceed(c, env, futs, f) ==
    IF ~available
        THEN /\ callpc' = [callpc EXCEPT ![c] = "wait"]
             /\ waiters' = waiters \cup {c}
             /\ content' = [content EXCEPT ![c] = env]
             /\ futures' = futs
             /\ fut' = [fut EXCEPT ![c] = f]
             /\ UNCHANGED <<sent, callret>>
    ELSE IF ws_io = Unset
        THEN /\ callpc' = [callpc EXCEPT ![c] = "done"]
             /\ callret' = [callret EXCEPT ![c] = Raised("AttributeError")]
             /\ content' = [content EXCEPT ![c] = env]
             /\ fut' = [fut EXCEPT ![c] = NoFut]
             /\ futures' = Forget(futs, c)
             /\ UNCHANGED <<sent, waiters>>
    ELSE /\ callpc' = [callpc EXCEPT ![c] = "await"]
         /\ sent' = [sent EXCEPT ![c] = ws_io]
         /\ content' = [content EXCEPT ![c] = env]
         /\ futures' = futs
         /\ fut' = [fut EXCEPT ![c] = f]
         /\ UNCHANGED <<callret, waiters>>

\* variant: the envelope is transmitted without a pending entry for its token
WsCall_Unregistered(c, method, command, token, params) ==
    /\ callpc[c] = "idle"
    /\ IF method = "MULTIPART"
        THEN /\ callpc' = [callpc EXCEPT ![c] = "done"]
             /\ callret' = [callret EXCEPT ![c] = Raised("NotImplementedError")]
             /\ UNCHANGED <<futures, fut, sent, waiters, content>>
        ELSE Proceed(c, [syncId |-> token, command |-> command,
                         content |-> ParamsOrEmpty(params),
                         subCommand |-> SubCommand(method)],
                     futures,
                     [state |-> "pending", result |-> NoRet])
    /\ UNCHANGED <<session_key, connected, alive, woken, variant, fallback,
                   open, verifySent, ws_io, running, gathering, raised, torn, lastUpdate>>
    /\ UNCHANGED httpVars

\* variant: a multipart call is registered and transmitted like any other
WsCall_SendsMultipart(c, method, command, token, params) ==
    /\ callpc[c] = "idle"
    /\ Proceed(c, [syncId |-> token, command |-> command,
                   content |-> ParamsOrEmpty(params),
                   subCommand |-> SubCommand(method)],
               [futures EXCEPT ![token] = c],
               [state |-> "pending", result |-> NoRet])
    /\ UNCHANGED <<session_key, connected, alive, woken, variant, fallback,
                   open, verifySent, ws_io, running, gathering, raised, torn, lastUpdate>>
    /\ UNCHANGED httpVars

\* WebsocketConnectionMixin.call up to its first suspension
WsCall(c, method, command, token, params) ==
    /\ callpc[c] = "idle"
    /\ IF method = "MULTIPART"
        THEN /\ callpc' = [callpc EXCEPT ![c] = "done"]
             /\ callret' = [callret EXCEPT ![c] = Raised("NotImplementedError")]
             /\ UNCHANGED <<futures, fut, sent, waiters, content>>
        ELSE Proceed(c, [syncId |-> token, command |-> command,
                         content |-> ParamsOrEmpty(params),
                         subCommand |-> SubCommand(method)],
                     [futures EXCEPT ![token] = c],
                     [state |-> "pending", result |-> NoRet])
    /\ UNCHANGED <<session_key, connected, alive, woken, variant, fallback,
                   open, verifySent, ws_io, running, gathering, raised, torn, lastUpdate>>
    /\ UNCHANGED httpVars

\* variant: wait_for_available returns at the first notification, whatever the status
WsCallWake_NoRecheck(c) ==
    /\ callpc[c] = "wait"
    /\ c \in woken
    /\ woken' = woken \ {c}
    /\ Proceed_NoWait(c, content[c], futures, fut[c])
    /\ UNCHANGED <<session_key, connected, alive, variant, fallback, open,
                   verifySent, ws_io, running, gathering, raised, torn, lastUpdate>>
    /\ UNCHANGED httpVars

\* a call suspended in wait_for_available runs again after a notification
WsCallWake(c) ==
    /\ callpc[c] = "wait"
    /\ c \in woken
    /\ woken' = woken \ {c}
    /\ Proceed(c, content[c], futures, fut[c])
    /\ UNCHANGED <<session_key, connected, alive, variant, fallback, open,
                   verifySent, ws_io, running, gathering, raised, torn, lastUpdate>>
    /\ UNCHANGED httpVars

\* `return await fut` once the future has a result
WsCallReturn(c) ==
    /\ callpc[c] = "await"
    /\ fut[c].state = "done"
    /\ callpc' = [callpc EXCEPT ![c] = "done"]
    /\ callret' = [callret EXCEPT ![c] = fut[c].result]
    /\ fut' = [fut EXCEPT ![c] = NoFut]
    /\ futures' = Forget(futures, c)
    /\ UNCHANGED <<statusVars, variant, fallback, open, verifySent, ws_io, content,
                   sent, torn, running, gathering, raised, lastUpdate>>
    /\ UNCHANGED httpVars

Init ==
    /\ StatusInit
    /\ WsInit
    /\ variant \in {"client", "server"}
    /\ lastUpdate = NoUpdate

Next ==
    \/ \E f \in Frames : Received(f)
    \/ \E cb \in Callbacks : CallbackDone(cb, TRUE, TRUE)
    \/ \E io \in Ios : Closed(io)
    \/ ClientConnect
    \/ \E h \in BOOLEAN, p \in BOOLEAN : ServerConnect(h, p)
    \/ \E m \in CallMethods : WsCall("c1", m, "messageList", "t1", None)
    \/ WsCallWake("c1")
    \/ WsCallReturn("c1")

Spec == Init /\ [][Next]_vars

\* ------------------------------------------------------------------ two concurrent calls
\* The remote answers the request carrying token t with the payload PayloadFor(t).
PayloadFor(t) == IF t = "t1" THEN "P1" ELSE "P2"

PairFrames ==
    {[code |-> NoCode, syncId |-> NoSync, data |-> [kind |-> "session", val |-> "K1"]],
     [code |-> NoCode, syncId |-> NoSync, data |-> [kind |-> "type", val |-> "E"]]}
        \cup {[code |-> 0, syncId |-> t, data |-> [kind |-> "payload", val |-> PayloadFor(t)]] :
                t \in Tokens}

InitPair ==
    /\ StatusInit
    /\ WsInit
    /\ variant = "client"
    /\ lastUpdate = NoUpdate

NextPair ==
    \/ \E f \in PairFrames : Received(f)
    \/ \E cb \in Callbacks : CallbackDone(cb, TRUE, TRUE)
    \/ \E io \in Ios : Closed(io)
    \/ ClientConnect
    \/ \E c \in Calls, m \in {"RESTGET", "RESTPOST"}, t \in Tokens :
            WsCall(c, m, "messageList", t, None)
    \/ \E c \in Calls : WsCallWake(c)
    \/ \E c \in Calls : WsCallReturn(c)

SpecPair == InitPair /\ [][NextPair]_vars

\* ------------------------------------------------------------------ one call of every kind
\* One socket call of any kind, command, token and params on a client connection.
InitEnvelope ==
    /\ StatusInit
    /\ WsInit
    /\ variant = "client"
    /\ lastUpdate = NoUpdate

NextEnvelope ==
    \/ \E f \in PairFrames : Received(f)
    \/ \E cb \in Callbacks : CallbackDone(cb, TRUE, TRUE)
    \/ \E io \in Ios : Closed(io)
    \/ ClientConnect
    \/ \E m \in CallMethods, cmd \in Commands, t \in Tokens, p \in CallParams :
            WsCall("c1", m, cmd, t, p)
    \/ WsCallWake("c1")
    \/ WsCallReturn("c1")

SpecEnvelope == InitEnvelope /\ [][NextEnvelope]_vars

\* ------------------------------------------------------------------ ConnectionMixin.call
Delegated(method, command) ==
    [kind |-> "delegated", val |-> "fallback.call", method |-> method, command |-> command]
Unsupported(conn, command) ==
    [kind |-> "raise", val |-> "NotImplementedError", connection |-> conn,
     command |-> command]

\* the application sets the fallback attribute of a constructed connection
AttachFallback ==
    /\ ~fallback
    /\ \A c \in Calls : callpc[c] = "idle"
    /\ fallback' = TRUE
    /\ UNCHANGED <<statusVars, variant, chanVars, callpc, callret, running, gathering, raised,
                   httpVars, lastUpdate>>

\* variant: without a fallback the call returns None
MixinOutcome_Silent(method, command) ==
    IF fallback THEN Delegated(method, command) ELSE [kind |-> "return", val |-> None]

MixinOutcome(method, command) ==
    IF fallback THEN Delegated(method, command) ELSE Unsupported(variant, command)

\* ConnectionMixin.call, which HttpServerConnection inherits
MixinCall(c, method, command) ==
    /\ variant = "httpserver"
    /\ callpc[c] = "idle"
    /\ callpc' = [callpc EXCEPT ![c] = "done"]
    /\ callret' = [callret EXCEPT ![c] = MixinOutcome(method, command)]
    /\ UNCHANGED <<statusVars, variant, fallback, chanVars, running, gathering, raised, httpVars,
                   lastUpdate>>

\* HttpServerConnection.handle_request: the qq header and the configured headers
\* of the request match, or not
HandleRequest(qqOk, headersOk) ==
    /\ variant = "httpserver"
    /\ Idle
    /\ IF ~qqOk
        THEN /\ response' = NoReply
             /\ UNCHANGED <<statusVars, running, gathering>>
        ELSE IF ~headersOk
            THEN /\ response' = Unauthorized
                 /\ UNCHANGED <<statusVars, running, gathering>>
            ELSE /\ CanDispatch
                 /\ update(Omit, <<TRUE>>, <<TRUE>>)
                 /\ Dispatch
                 /\ response' = NoResponse
    /\ raised' = NoException
    /\ UNCHANGED <<variant, fallback, chanVars, callpc, callret, mainpc, authkey,
                   issued, valid, httpreq, batch, lastUpdate>>

InitFallback ==
    /\ StatusInit
    /\ WsInit
    /\ variant \in {"client", "server", "httpserver"}
    /\ lastUpdate = NoUpdate

NextFallback ==
    \/ AttachFallback
    \/ \E q \in BOOLEAN, h \in BOOLEAN : HandleRequest(q, h)
    \/ \E cb \in Callbacks, ok \in BOOLEAN, aw \in BOOLEAN : CallbackDone(cb, ok, aw)
    \/ \E c \in Calls, m \in CallMethods, cmd \in Commands : MixinCall(c, m, cmd)
    \/ \E c \in Calls, m \in CallMethods, cmd \in Commands, t \in Tokens :
            variant \in {"client", "server"} /\ WsCall(c, m, cmd, t, None)

SpecFallback == InitFallback /\ [][NextFallback]_vars

\* ------------------------------------------------------------------ HttpClientConnection
\* command.replace("_", "/")
Slash(command) == IF command = "file_upload" THEN "file/upload" ELSE command
HttpCommands == {"messageList", "file_upload"}
\* params of a call: none, a dict of plain values, or a dict of (name, options) pairs
ParamKinds == {"empty", "plain", "pairs"}

\* the i-th session key the remote hands out
IssuedKey(i) == "K" \o ToString(i)

\* HttpClientConnection.request as call uses it for a method
RequestOf(method, command) ==
    IF method \in {"GET", "RESTGET"}
        THEN [verb |-> "GET", command |-> Slash(command), carrier |-> "params"]
    ELSE IF method \in {"POST", "RESTPOST"}
        THEN [verb |-> "POST", command |-> Slash(command), carrier |-> "json"]
    ELSE [verb |-> "POST", command |-> Slash(command), carrier |-> "data"]

\* request() builds the form of a non-empty dict from `for k, v in data.values()`,
\* which fails on values that are not pairs
FormFails(method, params) == method = "MULTIPART" /\ params = "plain"

\* variant: mainline enters its fetch loop although http_auth raised
HandshakeFailure_EntersLoop(task, exc) ==
    IF task = "main"
        THEN /\ update(None, <<>>, <<>>)
             /\ mainpc' = "loop"
             /\ UNCHANGED <<callpc, callret, raised>>
        ELSE /\ callpc' = [callpc EXCEPT ![task] = "done"]
             /\ callret' = [callret EXCEPT ![task] = Raised(exc)]
             /\ UNCHANGED <<statusVars, mainpc, raised>>

\* http_auth raises exc: mainline catches it, clears the session key, logs it and
\* ends; a call lets it propagate to its caller
HandshakeFailure(task, exc) ==
    IF task = "main"
        THEN /\ update(None, <<>>, <<>>)
             /\ mainpc' = "failed"
             /\ UNCHANGED <<callpc, callret, raised>>
        ELSE /\ callpc' = [callpc EXCEPT ![task] = "done"]
             /\ callret' = [callret EXCEPT ![task] = Raised(exc)]
             /\ UNCHANGED <<statusVars, mainpc, raised>>

\* variant: the key of the verify answer is stored before the bind request
AuthVerify_StoresKey(task, ok) ==
    /\ IF task = "main" THEN mainpc = "verify" ELSE callpc[task] = "verify"
    /\ IF ok
        THEN /\ issued < MaxKeys
             /\ issued' = issued + 1
             /\ valid' = valid \cup {IssuedKey(issued + 1)}
             /\ authkey' = [authkey EXCEPT ![task] = IssuedKey(issued + 1)]
             /\ IF task = "main"
                    THEN mainpc' = "bind" /\ UNCHANGED callpc
                    ELSE callpc' = [callpc EXCEPT ![task] = "bind"] /\ UNCHANGED mainpc
             /\ update(IssuedKey(issued + 1), <<>>, <<>>)
             /\ UNCHANGED <<callret, raised>>
        ELSE /\ UNCHANGED <<issued, valid, authkey>>
             /\ HandshakeFailure(task, "ProtocolError")
    /\ UNCHANGED <<variant, fallback, chanVars, running, gathering, httpreq, batch, lastUpdate,
                   response>>

\* http_auth: the verify request is answered
AuthVerify(task, ok) ==
    /\ IF task = "main" THEN mainpc = "verify" ELSE callpc[task] = "verify"
    /\ IF ok
        THEN /\ issued < MaxKeys
             /\ issued' = issued + 1
             /\ valid' = valid \cup {IssuedKey(issued + 1)}
             /\ authkey' = [authkey EXCEPT ![task] = IssuedKey(issued + 1)]
             /\ IF task = "main"
                    THEN mainpc' = "bind" /\ UNCHANGED callpc
                    ELSE callpc' = [callpc EXCEPT ![task] = "bind"] /\ UNCHANGED mainpc
             /\ UNCHANGED <<statusVars, callret, raised>>
        ELSE /\ UNCHANGED <<issued, valid, authkey>>
             /\ HandshakeFailure(task, "ProtocolError")
    /\ UNCHANGED <<variant, fallback, chanVars, running, gathering, httpreq, batch, lastUpdate,
                   response>>

\* the request a call issues once it holds a session key
IssueRequest(c) == callpc' = [callpc EXCEPT ![c] = "request"]

\* http_auth: the bind request is answered; the remote binds a key it still accepts
AuthBind(task) ==
    /\ IF task = "main" THEN mainpc = "bind" ELSE callpc[task] = "bind"
    /\ IF authkey[task] \in valid
        THEN /\ update(authkey[task], <<>>, <<>>)
             /\ IF task = "main"
                    THEN mainpc' = "loop" /\ UNCHANGED callpc
                    ELSE IssueRequest(task) /\ UNCHANGED mainpc
             /\ UNCHANGED <<callret, raised>>
        ELSE HandshakeFailure(task, "InvalidSession")
    /\ UNCHANGED <<variant, fallback, chanVars, running, gathering, authkey, issued, valid,
                   httpreq, batch, lastUpdate,
                   response>>

\* mainline starts with http_auth
MainStart ==
    /\ mainpc = "init"
    /\ mainpc' = "verify"
    /\ UNCHANGED <<statusVars, variant, fallback, chanVars, callpc, callret, running, gathering,
                   raised, authkey, issued, valid, httpreq, batch, lastUpdate,
                   response>>

\* `while self.status.connected`, then the sleep, or the update after the loop
MainLoop ==
    /\ mainpc = "loop"
    /\ Idle
    /\ IF batch > 0
        THEN /\ CanDispatch
             /\ batch' = batch - 1
             /\ Dispatch
             /\ UNCHANGED <<statusVars, mainpc>>
        ELSE IF connected
            THEN /\ mainpc' = "sleep"
                 /\ UNCHANGED <<statusVars, running, gathering, batch>>
            ELSE /\ update(Omit, <<>>, <<FALSE>>)
                 /\ mainpc' = "done"
                 /\ UNCHANGED <<running, gathering, batch>>
    /\ UNCHANGED <<variant, fallback, chanVars, callpc, callret, raised, authkey,
                   issued, valid, httpreq, lastUpdate,
                   response>>

\* the fetchMessage request with the current session key, and its answer of n events
MainFetch(n) ==
    /\ mainpc = "sleep"
    /\ IF session_key \in valid
        THEN /\ update(Omit, <<>>, <<TRUE>>)
             /\ batch' = n
             /\ mainpc' = "loop"
             /\ UNCHANGED raised
        ELSE /\ mainpc' = "crashed"
             /\ raised' = "InvalidSession"
             /\ UNCHANGED <<statusVars, batch>>
    /\ UNCHANGED <<variant, fallback, chanVars, callpc, callret, running, gathering, authkey,
                   issued, valid, httpreq, lastUpdate,
                   response>>

\* the remote stops accepting a session key
Expire(k) ==
    /\ k \in valid
    /\ valid' = valid \ {k}
    /\ UNCHANGED <<statusVars, variant, fallback, chanVars, callpc, callret, running, gathering,
                   raised, mainpc, authkey, issued, httpreq, batch, lastUpdate,
                   response>>

\* the tail of call from its wait on connected
HttpProceed(c) ==
    IF ~connected
        THEN /\ callpc' = [callpc EXCEPT ![c] = "wait"]
             /\ waiters' = waiters \cup {c}
    ELSE /\ IF ~Truthy(session_key)
                THEN callpc' = [callpc EXCEPT ![c] = "verify"]
                ELSE IssueRequest(c)
         /\ UNCHANGED waiters

\* HttpClientConnection.call up to its first suspension
HttpCall(c, method, command, params) ==
    /\ callpc[c] = "idle"
    /\ httpreq' = [httpreq EXCEPT ![c] =
            [RequestOf(method, command) EXCEPT
                !.carrier = IF FormFails(method, params) THEN "unformable" ELSE @]]
    /\ HttpProceed(c)
    /\ UNCHANGED <<session_key, connected, alive, woken, variant, fallback, chanVars,
                   callret, running, gathering, raised, mainpc, authkey, issued, valid, batch,
                   lastUpdate,
                   response>>

HttpCallWake(c) ==
    /\ callpc[c] = "wait"
    /\ c \in woken
    /\ woken' = woken \ {c}
    /\ HttpProceed(c)
    /\ UNCHANGED <<session_key, connected, alive, variant, fallback, chanVars,
                   callret, running, gathering, raised, httpVars, lastUpdate>>

\* the request of a call is answered, or was never sent
HttpResponse(c) ==
    /\ callpc[c] = "request"
    /\ callpc' = [callpc EXCEPT ![c] = "done"]
    /\ IF httpreq[c].carrier = "unformable"
        THEN /\ callret' = [callret EXCEPT ![c] = Raised("ValueError")]
             /\ UNCHANGED statusVars
        ELSE IF session_key \in valid
            THEN /\ callret' = [callret EXCEPT ![c] = [kind |-> "return", val |-> "data"]]
                 /\ UNCHANGED statusVars
            ELSE /\ update(None, <<>>, <<>>)
                 /\ callret' = [callret EXCEPT ![c] = Raised("InvalidSession")]
    /\ UNCHANGED <<variant, fallback, chanVars, running, gathering, raised, httpVars, lastUpdate>>

InitHttp ==
    /\ StatusInit
    /\ WsInit
    /\ variant = "httpclient"
    /\ lastUpdate = NoUpdate

NextHttp ==
    \/ MainStart
    \/ \E t \in Tasks, ok \in BOOLEAN : AuthVerify(t, ok)
    \/ \E t \in Tasks : AuthBind(t)
    \/ MainLoop
    \/ \E n \in 0..1 : MainFetch(n)
    \/ \E cb \in Callbacks, ok \in BOOLEAN, aw \in BOOLEAN : CallbackDone(cb, ok, aw)
    \/ \E k \in {IssuedKey(i) : i \in 1..MaxKeys} : Expire(k)
    \/ \E c \in Calls, m \in CallMethods, cmd \in HttpCommands, p \in ParamKinds :
            HttpCall(c, m, cmd, p)
    \/ \E c \in Calls : HttpCallWake(c)
    \/ \E c \in Calls : HttpResponse(c)

SpecHttp == InitHttp /\ [][NextHttp]_vars

\* ------------------------------------------------------------------ event paths of every variant
\* The handshake, event and teardown paths of the four connection classes, without calls.
EventFrames ==
    {[code |-> NoCode, syncId |-> NoSync, data |-> [kind |-> "session", val |-> "K1"]],
     [code |-> NoCode, syncId |-> NoSync, data |-> [kind |-> "type", val |-> "E"]],
     [code |-> 3, syncId |-> NoSync, data |-> NoData]}

InitEvents ==
    /\ StatusInit
    /\ WsInit
    /\ variant \in {"client", "server", "httpserver", "httpclient"}
    /\ lastUpdate = NoUpdate

NextEvents ==
    \/ \E f \in EventFrames : Received(f)
    \/ \E cb \in Callbacks, ok \in BOOLEAN, aw \in BOOLEAN : CallbackDone(cb, ok, aw)
    \/ \E io \in Ios : Closed(io)
    \/ ClientConnect
    \/ \E h \in BOOLEAN, p \in BOOLEAN : ServerConnect(h, p)
    \/ \E q \in BOOLEAN, h \in BOOLEAN : HandleRequest(q, h)
    \/ variant = "httpclient" /\ MainStart
    \/ \E ok \in BOOLEAN : AuthVerify("main", ok)
    \/ AuthBind("main")
    \/ MainLoop
    \/ \E n \in 0..1 : MainFetch(n)
    \/ \E k \in {IssuedKey(i) : i \in 1..MaxKeys} : Expire(k)

SpecEvents == InitEvents /\ [][NextEvents]_vars

\* ------------------------------------------------------------------ update() on its own
StatusUpdate ==
    /\ \E sk \in {Omit, None} \cup Keys, c \in OptBool, a \in OptBool :
        /\ update(sk, c, a)
        /\ lastUpdate' = [session_key |-> sk, connected |-> c, alive |-> a]
    /\ UNCHANGED wsVars
    /\ UNCHANGED httpVars

InitStatus ==
    /\ StatusInit
    /\ WsInit
    /\ variant = "none"
    /\ lastUpdate = NoUpdate

NextStatus == StatusUpdate

SpecStatus == InitStatus /\ [][NextStatus]_vars

\* ------------------------------------------------------------------ calls made by callbacks
\* A client connection where the callback cb1 makes the socket call c1 while it
\* handles an event, at most once, and awaits it: cb1 does not end before c1 has
\* returned. The call c2 is made by the application outside any callback. The
\* channel, once open, stays open. The remote answers every transmitted call; the
\* transport hands a frame to the received-frame handler when the handler of the
\* frame before has returned.
NestedCalls == {"c1"}
Caller(c) == "cb1"
TokenOf(c) == IF c = "c1" THEN "t1" ELSE "t2"

\* the response frame of the remote to the call c
ResponseTo(c) ==
    [code |-> 0, syncId |-> content[c].syncId,
     data |-> [kind |-> "payload", val |-> PayloadFor(content[c].syncId)]]

NestedCall(c) ==
    /\ c \in NestedCalls
    /\ Caller(c) \in gathering
    /\ \E m \in {"GET", "RESTGET", "RESTPOST"}, cmd \in Commands :
            WsCall(c, m, cmd, TokenOf(c), None)

OuterCall(c) ==
    /\ c \notin NestedCalls
    /\ \E m \in {"GET", "RESTGET", "RESTPOST"}, cmd \in Commands :
            WsCall(c, m, cmd, TokenOf(c), None)

NestedCallbackDone(cb) ==
    /\ \A c \in NestedCalls : Caller(c) = cb => callpc[c] \in {"idle", "done"}
    /\ CallbackDone(cb, TRUE, TRUE)

ResponseArrives(c) ==
    /\ callpc[c] = "await"
    /\ sent[c] \in open
    /\ fut[c].state = "pending"
    /\ Received(ResponseTo(c))

InitNested ==
    /\ StatusInit
    /\ WsInit
    /\ variant = "client"
    /\ lastUpdate = NoUpdate

NextNested ==
    \/ ClientConnect
    \/ \E f \in PairFrames : f.syncId = NoSync /\ Received(f)
    \/ \E c \in Calls : ResponseArrives(c)
    \/ \E c \in Calls : NestedCall(c)
    \/ \E c \in Calls : OuterCall(c)
    \/ \E cb \in Callbacks : NestedCallbackDone(cb)
    \/ \E c \in Calls : WsCallWake(c)
    \/ \E c \in Calls : WsCallReturn(c)

\* the event loop runs every task that is ready; the remote answers, and a frame
\* that has arrived is handled in its turn, however many frames follow it
FairNested ==
    /\ \A c \in Calls : SF_vars(ResponseArrives(c))
    /\ \A c \in Calls : WF_vars(WsCallWake(c))
    /\ \A c \in Calls : WF_vars(WsCallReturn(c))
    /\ \A cb \in Callbacks : WF_vars(NestedCallbackDone(cb))

SpecNested == InitNested /\ [][NextNested]_vars /\ FairNested

\* ------------------------------------------------------------------ update() and waiting calls
\* Calls of a polling connection that wait for connected, with update called from
\* outside with any arguments.
InitWaiters ==
    /\ StatusInit
    /\ WsInit
    /\ variant = "httpclient"
    /\ lastUpdate = NoUpdate

NextWaiters ==
    \/ StatusUpdate
    \/ \E c \in Calls : HttpCall(c, "RESTGET", "messageList", "plain")
    \/ \E c \in Calls : HttpCallWake(c)
    \/ \E c \in Calls, ok \in BOOLEAN : AuthVerify(c, ok)
    \/ \E c \in Calls : AuthBind(c)
    \/ \E c \in Calls : HttpResponse(c)

SpecWaiters == InitWaiters /\ [][NextWaiters]_vars

\* ------------------------------------------------------------------ claims
\* inputs of the claims below
\* the frames of Frames with a nonzero code, and those without one whose data has
\* a session member
ErrorFrames == [code : {3, 5}, syncId : {NoSync} \cup Tokens, data : {NoData}]
AckFrames ==
    [code : {NoCode}, syncId : {NoSync} \cup Tokens,
     data : [kind : {"session"}, val : {"", "K1"}]]
PayloadData(p) == [kind |-> "payload", val |-> p]

\* C1: immediately after every update call, available equals
\* (connected AND alive AND sessionKey is not null).
C1_AvailableIsConjunction ==
    lastUpdate # NoUpdate => (available = (connected /\ alive /\ session_key # None))

\* C2: of two calls pending at once, each is resolved with, and returns, the payload
\* of the response frame that carries its own token, in either arrival order.
C2_OwnPayload ==
    \A c \in Calls :
        /\ fut[c].state = "done" => fut[c].result = PayloadData(PayloadFor(content[c].syncId))
        /\ callpc[c] = "done" => callret[c] = PayloadData(PayloadFor(content[c].syncId))

C2_Witness ==
    /\ content["c1"].syncId = "t1" /\ content["c2"].syncId = "t2"
    /\ callpc["c1"] = "await" /\ fut["c1"].state = "pending"
    /\ callpc["c2"] = "done" /\ callret["c2"] = PayloadData("P2")

\* C3: a frame with a nonzero error code that arrives while the call of its token is
\* pending fails that call and removes its entry from the pending map.
C3_ErrorFrameFailsCall ==
    [][\A f \in ErrorFrames :
         (Owner(f.syncId) # NoCall /\ Received(f)) =>
            /\ fut'[Owner(f.syncId)].state # "pending"
            /\ futures'[f.syncId] = NoCall]_vars

\* C4 as stated: a call that suspended while connected = false proceeds to send as
\* soon as an update supplies a session key, nothing else changing.
C4_KeyAloneReleasesCall ==
    [][\A f \in AckFrames :
         (Truthy(f.data.val) /\ callpc["c1"] = "wait" /\ ~connected /\ Received(f))
            => available']_vars

\* C4 as amended: a call made while connected = false suspends without transmitting;
\* an update that supplies a session key notifies it, and it passes its wait, and
\* transmits on the channel the connection holds, when alive is true as well.
C4_KeyAndAliveReleaseCall ==
    [][/\ \A m \in CallMethods \ {"MULTIPART"} :
            (WsCall("c1", m, "messageList", "t1", None) /\ ~connected) =>
                /\ callpc'["c1"] = "wait"
                /\ sent' = sent
       /\ \A f \in AckFrames :
            (Truthy(f.data.val) /\ callpc["c1"] = "wait" /\ Received(f)) =>
                /\ "c1" \in woken'
                /\ available' = alive
       /\ (WsCallWake("c1") /\ available) =>
                /\ callpc'["c1"] # "wait"
                /\ ws_io # Unset => (callpc'["c1"] = "await" /\ sent'["c1"] = ws_io)
       /\ (WsCallWake("c1") /\ ~available) =>
                /\ callpc'["c1"] = "wait"
                /\ sent' = sent]_vars

C4_Witness ==
    /\ callpc["c1"] = "wait"
    /\ "c1" \in woken
    /\ available
    /\ ws_io # Unset

\* C5: once a handshake has obtained a key and a request was rejected with an
\* invalid-session error, the next call first re-runs the handshake; it neither
\* suspends nor issues its request with the rejected or absent key.
Rejected ==
    /\ issued >= 1
    /\ session_key \notin valid
    /\ \/ mainpc = "crashed" /\ raised = "InvalidSession"
       \/ \E d \in Calls : callpc[d] = "done" /\ callret[d] = Raised("InvalidSession")
C5_NextCallRehandshakes ==
    [][\A c \in Calls, m \in CallMethods, cmd \in HttpCommands, p \in ParamKinds :
         (Rejected /\ HttpCall(c, m, cmd, p)) => callpc'[c] = "verify"]_vars

\* C6 as stated: the close handler clears the session key, sets alive = false and
\* leaves connected as it was.
C6_CloseKeepsConnected ==
    [][\A io \in Ios :
         (Closed(io) /\ ws_io # Unset) =>
            /\ session_key' = None
            /\ alive' = FALSE
            /\ connected' = connected]_vars

\* C6 as amended: the close handler, when the connection holds a channel reference,
\* clears the session key and sets alive = false and connected = false; when the
\* reference is already gone it raises before it touches the status.
C6_CloseClearsConnected ==
    [][\A io \in Ios :
         Closed(io) =>
            IF ws_io # Unset
                THEN session_key' = None /\ alive' = FALSE /\ connected' = FALSE
                     /\ ws_io' = Unset
                ELSE UNCHANGED <<session_key, connected, alive, ws_io>>]_vars

C6_Witness ==
    /\ open = {}
    /\ ws_io = Unset
    /\ session_key = None /\ ~connected /\ ~alive
    /\ callpc["c1"] = "await"

\* C7: a multipart call on a socket connection with a fallback attached is
\* forwarded to fallback.call with the same method and command and returns its result.
C7_MultipartDelegated ==
    [][\A c \in Calls, cmd \in Commands, t \in Tokens :
         (fallback /\ WsCall(c, "MULTIPART", cmd, t, None)) =>
            callret'[c] = Delegated("MULTIPART", cmd)]_vars

\* C8: on the inbound HTTP connection with no fallback attached every call ends at
\* once with the unsupported-operation error naming the connection and the command;
\* nothing is sent and the status is unchanged.
C8_UnsupportedWithoutFallback ==
    [][\A c \in Calls, m \in CallMethods, cmd \in Commands :
         (~fallback /\ MixinCall(c, m, cmd)) =>
            /\ callpc'[c] = "done"
            /\ callret'[c].kind = "raise"
            /\ callret'[c] = Unsupported("httpserver", cmd)
            /\ UNCHANGED <<session_key, connected, alive>>
            /\ sent' = sent
            /\ httpreq' = httpreq]_vars

C8_Witness ==
    /\ variant = "httpserver"
    /\ ~fallback
    /\ connected /\ alive
    /\ callpc["c1"] = "done"
    /\ callret["c1"] = Unsupported("httpserver", "uploadImage")
    /\ callpc["c2"] = "done"
    /\ callret["c2"] = Unsupported("httpserver", "messageList")

\* C9: a handshake-ack frame with session S sets sessionKey to S and connected to
\* true, leaves alive alone and invokes no event callback.
C9_HandshakeAck ==
    [][\A f \in AckFrames :
         Received(f) =>
            /\ session_key' = f.data.val
            /\ connected' = TRUE
            /\ alive' = alive
            /\ running' = running]_vars

C9_Witness ==
    /\ session_key = "K1"
    /\ connected
    /\ ~alive
    /\ open # {}

\* C10: a frame without an error code whose token is not in the pending map never
\* raises in the frame handler, whatever its data.
C10_UnknownTokenNeverRaises ==
    [][\A f \in Frames \ ErrorFrames :
         (Owner(f.syncId) = NoCall /\ Received(f)) =>
            raised' = NoException]_vars

\* C11: a callback that fails during the fan-out of an event does not fail the
\* handler that dispatched it: the handler goes on waiting for the other callbacks
\* and ends normally; a polling loop goes on running.
C11_CallbackFailureContained ==
    [][\A cb \in Callbacks :
         CallbackDone(cb, FALSE, TRUE) =>
            /\ raised' = NoException
            /\ mainpc' = mainpc
            /\ gathering' = gathering \ {cb}]_vars

\* C12 as stated: in every reachable state of every variant, connected = true
\* implies that the session key is not null.
C12_ConnectedImpliesKey == connected => session_key # None

\* C12 as amended: on the socket and polling connections no event-receive path
\* changes the session key or connected, and connected = true implies a session key
\* that is not null; the inbound HTTP connection, which has no handshake, sets
\* connected = true and alive = true on every accepted request and never a session key.
EventPathKeepsSession ==
    /\ \A f \in EventFrames :
            (FrameOutcome(f) = "event" /\ Received(f)) =>
                (session_key' = session_key /\ connected' = connected /\ alive')
    /\ \A n \in 0..1 :
            MainFetch(n) => (session_key' = session_key /\ connected' = connected)
    /\ \A q \in BOOLEAN, h \in BOOLEAN :
            HandleRequest(q, h) =>
                /\ session_key' = None
                /\ (q /\ h) => (connected' /\ alive')
                /\ ~(q /\ h) => (connected' = connected /\ alive' = alive)
C12_HandshakeSetsBoth ==
    [][/\ EventPathKeepsSession
       /\ variant # "httpserver" => (connected' => session_key' # None)]_vars

C12_Witness ==
    /\ variant = "httpserver"
    /\ connected
    /\ alive
    /\ session_key = None
    /\ response = Acknowledged

\* C13: an inbound HTTP request with a missing or wrong required header, the
\* account header included, gets the unauthorized response; no callback is invoked
\* and the status is unchanged.
C13_RejectedUnauthorized ==
    [][\A q \in BOOLEAN, h \in BOOLEAN :
         (~(q /\ h) /\ HandleRequest(q, h)) =>
            /\ response' = Unauthorized
            /\ UNCHANGED <<session_key, connected, alive>>
            /\ running' = running]_vars

\* C14: a socket call passes its wait_for_available step only in a state where
\* available is true; a call that is notified while available is false (again)
\* suspends again without transmitting.
C14_PassesWaitOnlyAvailable ==
    [][\A c \in Calls :
         /\ (/\ callpc[c] \in {"idle", "wait"}
             /\ callpc'[c] \in {"await", "done"}
             /\ callret'[c] # Raised("NotImplementedError")) => (available /\ available')
         /\ (~available /\ WsCallWake(c)) =>
                (callpc'[c] = "wait" /\ c \in waiters' /\ sent' = sent)]_vars

C14_Witness ==
    /\ callpc["c1"] = "wait"
    /\ "c1" \in woken
    /\ fut["c1"].state = "pending"
    /\ ~available
    /\ ws_io = Unset
    /\ open = {}

\* C15: when the handshake of mainline fails, the session key is cleared, the run
\* ends without entering the fetch loop and available is false from then on;
\* the fetch loop is entered only from a handshake that succeeded.
C15_FailedHandshakeEndsRun ==
    [][/\ mainpc' = "failed" =>
            /\ mainpc \in {"verify", "bind", "failed"}
            /\ session_key' = None
            /\ ~connected' /\ ~alive' /\ ~available'
            /\ batch' = 0
       /\ mainpc = "failed" => mainpc' = "failed"
       /\ (mainpc \notin {"loop", "sleep"} /\ mainpc' \in {"loop", "sleep"}) =>
            /\ mainpc = "bind" /\ mainpc' = "loop"
            /\ authkey["main"] \in valid
            /\ session_key' = authkey["main"]
            /\ connected']_vars

C15_Witness ==
    /\ mainpc = "failed"
    /\ authkey["main"] = "K1"
    /\ session_key = None
    /\ ~connected

\* C16 as stated: update leaves every omitted field unchanged, applies the supplied
\* ones, and whenever a session key is supplied (null included) sets connected to
\* (session key is not null).
C16_KeyDecidesConnected ==
    [][LET u == lastUpdate' IN
        /\ session_key' = (IF u.session_key # Omit THEN u.session_key ELSE session_key)
        /\ alive' = (IF u.alive # <<>> THEN u.alive[1] ELSE alive)
        /\ u.session_key # Omit => connected' = (u.session_key # None)
        /\ (u.session_key = Omit /\ u.connected = <<>>) => connected' = connected
        /\ (u.session_key = Omit /\ u.connected # <<>>) => connected' = u.connected[1]]_vars

\* C16 as amended: update leaves every omitted field unchanged and applies the
\* supplied ones; a supplied session key (null included) sets connected to
\* (session key is not null) when connected is omitted, and a supplied connected
\* is the value connected takes, with or without a session key.
C16_SuppliedConnectedWins ==
    [][LET u == lastUpdate' IN
        /\ session_key' = (IF u.session_key # Omit THEN u.session_key ELSE session_key)
        /\ alive' = (IF u.alive # <<>> THEN u.alive[1] ELSE alive)
        /\ connected' = (IF u.connected # <<>> THEN u.connected[1]
                         ELSE IF u.session_key # Omit THEN u.session_key # None
                         ELSE connected)]_vars

C16_Witness ==
    /\ lastUpdate = [session_key |-> None, connected |-> <<TRUE>>, alive |-> <<>>]
    /\ session_key = None
    /\ connected
    /\ alive

\* C17: resolving a call by a response frame removes its entry from the pending
\* map, and a channel teardown removes every entry.
C17_EntryOnlyWhilePending ==
    [][/\ \A f \in Frames :
            (FrameOutcome(f) = "resolved" /\ Received(f)) => futures'[f.syncId] = NoCall
       /\ \A io \in Ios :
            Closed(io) => \A t \in Tokens : futures'[t] = NoCall]_vars

\* C18: a call that awaited its response when its channel was torn down is never
\* resolved afterwards, whatever arrives on a channel opened later.
C18_TornCallNeverResolves ==
    \A c \in torn : callpc[c] = "await" /\ fut[c].state = "pending"

\* C19: after every invalid-session rejection the connection receives, in the
\* request of a polling call, in a polling fetch or in a socket frame, the session
\* key is null.
InvalidSessionFrames == {f \in Frames : f.code = 3}
C19_RejectionClearsKey ==
    [][/\ \A c \in Calls :
            (callpc[c] = "request" /\ callret'[c] = Raised("InvalidSession")) =>
                session_key' = None
       /\ (mainpc = "sleep" /\ mainpc' = "crashed" /\ raised' = "InvalidSession") =>
                session_key' = None
       /\ \A f \in InvalidSessionFrames : Received(f) => session_key' = None]_vars

\* C20: when the polling main loop has stopped running, for whatever reason, alive
\* is false.
C20_StoppedLoopNotAlive == mainpc \in {"done", "crashed"} => ~alive

\* C21: a multipart call on a socket connection raises at once: no pending entry
\* is registered, the call does not wait, nothing is transmitted, and the pending
\* map, the status and the channel are as before.
C21_MultipartFailsFast ==
    [][\A c \in Calls, cmd \in Commands, t \in Tokens, p \in CallParams :
         WsCall(c, "MULTIPART", cmd, t, p) =>
            /\ callpc'[c] = "done"
            /\ callret'[c] = Raised("NotImplementedError")
            /\ UNCHANGED <<futures, fut, sent, waiters, woken, open, ws_io>>
            /\ UNCHANGED <<session_key, connected, alive>>]_vars

C21_Witness ==
    /\ callpc["c1"] = "done"
    /\ callret["c1"] = Raised("NotImplementedError")
    /\ available
    /\ ws_io # Unset
    /\ sent["c1"] = Unset
    /\ \A t \in Tokens : futures[t] = NoCall

\* C22: a read or write call on a socket connection registers its pending entry,
\* then waits until the connection is available, then transmits, then suspends on
\* the entry: a call that waits is registered and has transmitted nothing, and at
\* the step that transmits the connection is available, the entry is in the map
\* under the envelope's token and the call is left suspended on it.
C22_RegisterWaitTransmitSuspend ==
    [][\A c \in Calls :
         /\ callpc'[c] = "wait" =>
               /\ futures'[content'[c].syncId] = c
               /\ sent'[c] = Unset
         /\ sent'[c] # sent[c] =>
               /\ available
               /\ sent'[c] = ws_io
               /\ futures'[content'[c].syncId] = c
               /\ fut'[c].state # "none"
               /\ callpc'[c] = "await"]_vars

C22_Witness ==
    /\ callpc["c1"] = "await"
    /\ sent["c1"] # Unset
    /\ "c1" \notin woken
    /\ content["c1"].subCommand \in {"get", "update"}
    /\ futures[content["c1"].syncId] = "c1"
    /\ fut["c1"].state = "pending"

\* C23: no connection becomes available without a handshake: available needs a
\* session key, the key is stored or replaced only by the step that processes a
\* handshake-ack frame or by the bind answer that completes verify + bind, and the
\* inbound HTTP connection, which has no handshake, is never available.
C23_AvailableOnlyAfterHandshake ==
    [][/\ (session_key' # session_key /\ session_key' # None) =>
            \/ \E f \in AckFrames : Received(f)
            \/ \E task \in Tasks : authkey[task] \in valid /\ AuthBind(task)
       /\ available' => /\ session_key' # None
                        /\ variant \in {"client", "server", "httpclient"}]_vars

C23_Witness ==
    /\ variant = "httpclient"
    /\ available
    /\ session_key = authkey["main"]
    /\ mainpc = "loop"

\* C24: an inbound socket attempt whose headers or query parameters do not all
\* match is closed: it is not accepted, no verify frame is sent and the channel
\* held for calls stays as it was. An attempt where all match is accepted, the
\* verify frame is sent once on the new channel, and that channel becomes the one
\* held for calls.
C24_InboundAttempt ==
    [][\A h \in BOOLEAN, p \in BOOLEAN :
         ServerConnect(h, p) =>
            IF h /\ p
                THEN /\ NewIo \notin open
                     /\ NewIo \notin verifySent
                     /\ open' = open \cup {NewIo}
                     /\ verifySent' = verifySent \cup {NewIo}
                     /\ ws_io' = NewIo
                ELSE UNCHANGED <<open, verifySent, ws_io>>]_vars

C24_Witness ==
    /\ variant = "server"
    /\ Cardinality(open) >= 2
    /\ verifySent = open
    /\ ws_io \in open
    /\ \A io \in open : io <= ws_io

\* C25: an inbound HTTP request that passes both checks sets connected and alive,
\* leaves the session key alone and hands its one event to every callback once;
\* its handler ends by returning the acknowledgment, and only when every callback
\* of the request has ended.
C25_AcceptedRequestAcknowledged ==
    [][/\ HandleRequest(TRUE, TRUE) =>
            /\ connected' /\ alive'
            /\ session_key' = session_key
            /\ gathering' = Callbacks
            /\ \A cb \in Callbacks : running'[cb] = running[cb] + 1
            /\ response' = NoResponse
       /\ (variant = "httpserver" /\ gathering' # {}) => response' # Acknowledged
       /\ (variant = "httpserver" /\ gathering # {} /\ gathering' = {}) =>
            /\ response' = Acknowledged
            /\ \E cb \in Callbacks : gathering = {cb}]_vars

\* C26: frames and fetched items are handled one after the other, and a handler
\* that dispatched an event waits for every callback of that event: when the next
\* frame is processed, the next fetched item is dispatched or the next fetch is
\* issued, no callback of an earlier event is still running.
C26_NextAfterAllCallbacks ==
    [][(\/ \E f \in EventFrames : Received(f)
        \/ MainLoop
        \/ \E n \in 0..1 : MainFetch(n)) =>
            /\ gathering = {}
            /\ \A cb \in Callbacks : running[cb] = 0]_vars

\* C27: every update, also one with no argument or one that changes nothing,
\* resolves every task that is suspended in wait_for_update at that moment, with the
\* new values in place when they run; a polling call that waits for connected and
\* runs again while connected is true goes on to its handshake or its request.
C27_EveryUpdateNotifies ==
    [][/\ StatusUpdate =>
            /\ woken' = woken \cup waiters
            /\ waiters' = {}
            /\ session_key' = NewSessionKey(lastUpdate'.session_key)
            /\ connected' = NewConnected(lastUpdate'.session_key, lastUpdate'.connected)
            /\ alive' = NewAlive(lastUpdate'.alive)
       /\ \A c \in Calls :
            HttpCallWake(c) =>
                IF connected THEN callpc'[c] \in {"verify", "request"}
                             ELSE callpc'[c] = "wait" /\ c \in waiters']_vars

C27_Witness ==
    /\ lastUpdate = [session_key |-> Omit, connected |-> <<TRUE>>, alive |-> <<>>]
    /\ connected
    /\ woken = Calls
    /\ \A c \in Calls : callpc[c] = "wait"

\* C28: a call on the polling connection issues exactly the one request of its
\* kind, whatever its params: GET with the params as query for a read kind, POST
\* with the params as body for a write kind, POST with the params as form for
\* multipart; no call ends without its request having been issued.
C28_DispatchByKind ==
    [][\A c \in Calls :
         /\ \A m \in CallMethods, cmd \in HttpCommands, p \in ParamKinds :
              HttpCall(c, m, cmd, p) => httpreq'[c] = RequestOf(m, cmd)
         /\ HttpResponse(c) =>
              /\ httpreq[c].carrier \in {"params", "json", "data"}
              /\ callret'[c] # Raised("ValueError")]_vars

\* C29: the envelope a socket call builds, and later transmits unchanged, carries
\* the call's token, its command and its content ({} when no params were given);
\* its subCommand is get for a read-tagged call, update for a write-tagged call and
\* absent for the other kinds that are transmitted.
C29_Envelope ==
    [][\A c \in Calls :
         /\ \A m \in CallMethods \ {"MULTIPART"}, cmd \in Commands, t \in Tokens,
               p \in CallParams :
              WsCall(c, m, cmd, t, p) =>
                  content'[c] = [syncId |-> t,
                                 command |-> cmd,
                                 content |-> IF p = "plain" THEN "plain" ELSE "empty",
                                 subCommand |-> CASE m = "RESTGET" -> "get"
                                                  [] m = "RESTPOST" -> "update"
                                                  [] OTHER -> "absent"]
         /\ sent'[c] # sent[c] =>
              /\ callpc[c] = "wait" => content'[c] = content[c]
              /\ content'[c].syncId \in Tokens
              /\ content'[c].command \in Commands
              /\ content'[c].content \in {"empty", "plain"}
              /\ content'[c].subCommand \in {"get", "update", "absent"}]_vars

C29_Witness ==
    /\ sent["c1"] # Unset
    /\ content["c1"] = [syncId |-> "t2", command |-> "uploadImage",
                        content |-> "plain", subCommand |-> "absent"]

\* C30: a pending socket call is resolved at most once, and a further response
\* frame that carries the token of a call already resolved does not raise in the
\* frame handler and leaves the result of the call as it is.
C30_SecondResponseHarmless ==
    [][\A f \in Frames \ ErrorFrames :
         (/\ Owner(f.syncId) # NoCall
          /\ fut[Owner(f.syncId)].state = "done"
          /\ f.data.kind \notin {"absent", "session"}
          /\ Received(f)) =>
            /\ raised' = NoException
            /\ fut' = fut]_vars

\* C31: a socket call that transmits finds a channel reference, and the channel is
\* open: no call fails at its transmit step because the close handler has discarded
\* the reference; and no close fails, a second close without a connect in between
\* included.
C31_TransmitHoldsChannel ==
    [][/\ \A c \in Calls :
            /\ callret'[c] # callret[c] => callret'[c] # Raised("AttributeError")
            /\ sent'[c] # sent[c] => sent'[c] \in open
       /\ \A io \in Ios : Closed(io) => raised' = NoException]_vars

\* C32: a socket call that a callback makes and awaits while the frame handler
\* waits for that callback returns, once it is transmitted on a channel that stays
\* open and the remote answers it.
C32_NestedCallReturns ==
    \A c \in NestedCalls :
        (callpc[c] = "await" /\ sent[c] \in open) ~> (callpc[c] = "done")

\* C33: when update is given both a session key and a connected value, the key is
\* stored and connected takes the supplied value, not the one derived from the key:
\* a null key with connected = true leaves connected true without a key, and a key
\* with connected = false leaves connected false with the key.
C33_ExplicitConnectedOverridesKey ==
    [][\A sk \in {None} \cup Keys, c \in BOOLEAN :
         (lastUpdate'.session_key = sk /\ lastUpdate'.connected = <<c>>) =>
            /\ session_key' = sk
            /\ connected' = c]_vars

C33_Witness ==
    /\ lastUpdate.session_key = "K1"
    /\ lastUpdate.connected = <<FALSE>>
    /\ session_key = "K1"
    /\ ~connected

====
